---- MODULE Spec2Model ----
(***************************************************************************)
(* A model of the crypto price tracker's service layer                     *)
(* (src/src/services/tracker.py, class CryptoTracker): the tracked-coin    *)
(* collection, the price-snapshot collection, fail-safe batch recording,   *)
(* the market and trend analytics, and the coin search.                    *)
(*                                                                         *)
(* Python strings are sequences of one-character strings, so that          *)
(* str.lower(), the "in" substring test, len() and the store's ordering    *)
(* by name are computed rather than assumed.  Prices are integers and      *)
(* every comparison of a quotient with a decimal threshold is done by      *)
(* exact cross-multiplication.                                             *)
(***************************************************************************)
EXTENDS Integers, Sequences, FiniteSets, TLC

VARIABLES
    tracked_coins,  \* the TrackedCoinDocument collection, in insertion order
    coin_prices,    \* the CoinPriceDocument collection, in insertion order
    clock,          \* the timestamp of the newest snapshot ever stored
    catalog,        \* what client.get_supported_coins_with_details() returns
    client_calls,   \* the calls the last operation made on self.client
    result          \* the outcome of the last operation

vars == <<tracked_coins, coin_prices, clock, catalog, client_calls, result>>

----------------------------------------------------------------------------
(* Bounds of the model. *)

MaxClock == 3      \* snapshots taken in one run of the service
MaxHistory == 5    \* snapshots already stored when the analytics run
MaxCatalog == 3    \* coins in the remote catalog

----------------------------------------------------------------------------
(* Strings. *)

\* The characters in use, in ASCII order: the index of a character in Chars
\* orders characters as their code points do.
Chars ==
    <<" ", "-", ".",
      "A", "B", "C", "D", "E", "F", "G", "H", "I", "J", "K", "L", "M",
      "N", "O", "P", "Q", "R", "S", "T", "U", "V", "W", "X", "Y", "Z",
      "a", "b", "c", "d", "e", "f", "g", "h", "i", "j", "k", "l", "m",
      "n", "o", "p", "q", "r", "s", "t", "u", "v", "w", "x", "y", "z">>

\* The code point order: the position of each character in Chars.
CharCode == [c \in {Chars[i] : i \in 1..Len(Chars)} |->
                CHOOSE i \in 1..Len(Chars) : Chars[i] = c]

IsUpper(c) == CharCode[c] >= CharCode["A"] /\ CharCode[c] <= CharCode["Z"]

\* str.lower() on each character: an upper-case letter maps to the
\* lower-case letter 26 places on, any other character to itself.
LowerChar == [c \in {Chars[i] : i \in 1..Len(Chars)} |->
                 IF IsUpper(c) THEN Chars[CharCode[c] + 26] ELSE c]

\* str.lower()
RECURSIVE Lower(_)
Lower(s) == IF s = <<>> THEN <<>> ELSE <<LowerChar[Head(s)]>> \o Lower(Tail(s))

\* Python's "sub in s".
Contains(sub, s) ==
    \E i \in 1..(Len(s) - Len(sub) + 1) : SubSeq(s, i, i + Len(sub) - 1) = sub

\* s < t in the store's ordering of strings (by code point, a prefix first).
RECURSIVE StrLess(_, _)
StrLess(s, t) ==
    IF t = <<>> THEN FALSE
    ELSE IF s = <<>> THEN TRUE
    ELSE IF s[1] # t[1] THEN CharCode[s[1]] < CharCode[t[1]]
    ELSE StrLess(Tail(s), Tail(t))

----------------------------------------------------------------------------
(* The coins of the model. *)

BitcoinId == <<"b","i","t","c","o","i","n">>
EthereumId == <<"e","t","h","e","r","e","u","m">>
RippleId == <<"r","i","p","p","l","e">>

\* MAJOR_COINS, the priority table: key -> entry.
MajorBitcoin == [id |-> BitcoinId, symbol |-> <<"b","t","c">>,
                 name |-> <<"B","i","t","c","o","i","n">>]
MajorEthereum == [id |-> EthereumId, symbol |-> <<"e","t","h">>,
                  name |-> <<"E","t","h","e","r","e","u","m">>]
MajorRipple == [id |-> RippleId, symbol |-> <<"x","r","p">>,
                name |-> <<"R","i","p","p","l","e">>]
MajorSolana == [id |-> <<"s","o","l","a","n","a">>, symbol |-> <<"s","o","l">>,
                name |-> <<"S","o","l","a","n","a">>]
MajorCardano == [id |-> <<"c","a","r","d","a","n","o">>, symbol |-> <<"a","d","a">>,
                 name |-> <<"C","a","r","d","a","n","o">>]
MajorDogecoin == [id |-> <<"d","o","g","e","c","o","i","n">>,
                  symbol |-> <<"d","o","g","e">>,
                  name |-> <<"D","o","g","e","c","o","i","n">>]
MajorBinance == [id |-> <<"b","i","n","a","n","c","e","c","o","i","n">>,
                 symbol |-> <<"b","n","b">>,
                 name |-> <<"B","i","n","a","n","c","e"," ","C","o","i","n">>]

MajorEntries ==
    {MajorBitcoin, MajorEthereum, MajorSolana, MajorRipple, MajorCardano,
     MajorDogecoin, MajorBinance}

\* The keys of MAJOR_COINS: the id and the symbol of every entry.
MajorKeys == {e.id : e \in MajorEntries} \cup {e.symbol : e \in MajorEntries}

\* MAJOR_COINS[key]
MAJOR_COINS(key) == CHOOSE e \in MajorEntries : key = e.id \/ key = e.symbol

----------------------------------------------------------------------------
(* The stores. *)

\* The arguments add_tracked_coin is called with: the symbol in the case the
\* caller typed it.
AddInputs ==
    { [coin_id |-> BitcoinId, symbol |-> <<"B","T","C">>,
       name |-> <<"B","i","t","c","o","i","n">>],
      [coin_id |-> EthereumId, symbol |-> <<"e","t","h">>,
       name |-> <<"E","t","h","e","r","e","u","m">>],
      [coin_id |-> RippleId, symbol |-> <<"X","r","p">>,
       name |-> <<"X","R","P">>] }

CoinIds == {a.coin_id : a \in AddInputs}

\* The prices client.get_price returns while the service runs.
FetchPrices == {100}

\* TrackedCoinDocument.objects(coin_id=coin_id)
TrackedWithId(coin_id) == SelectSeq(tracked_coins, LAMBDA t : t.coin_id = coin_id)

\* Insert t into the name-ordered list s, after the entries that do not
\* sort after it.
RECURSIVE InsertByName(_, _)
InsertByName(t, s) ==
    IF s = <<>> THEN <<t>>
    ELSE IF StrLess(t.name, Head(s).name) THEN <<t>> \o s
    ELSE <<Head(s)>> \o InsertByName(t, Tail(s))

\* order_by("name")
RECURSIVE OrderByName(_)
OrderByName(s) ==
    IF s = <<>> THEN <<>>
    ELSE InsertByName(s[Len(s)], OrderByName(SubSeq(s, 1, Len(s) - 1)))

\* list_tracked_coins()
ListTrackedCoins == OrderByName(tracked_coins)

\* add_tracked_coin: the lookup, then the document that is saved.
NewTrackedCoin(coin_id, symbol, name) ==
    [coin_id |-> coin_id, symbol |-> Lower(symbol), name |-> name,
     is_active |-> TRUE]

\* add_tracked_coin without the lookup of the id.
AddTrackedCoinNoLookup(coin_id, symbol, name) ==
    /\ tracked_coins' =
           Append(tracked_coins, NewTrackedCoin(coin_id, symbol, name))
    /\ result' = [op |-> "add_tracked_coin", coin_id |-> coin_id,
                  raised |-> "None",
                  value |-> NewTrackedCoin(coin_id, symbol, name)]
    /\ client_calls' = <<>>
    /\ UNCHANGED <<coin_prices, clock, catalog>>

AddTrackedCoin(coin_id, symbol, name) ==
    /\ IF TrackedWithId(coin_id) # <<>>
       THEN /\ result' = [op |-> "add_tracked_coin", coin_id |-> coin_id,
                          raised |-> "ValueError: already tracked"]
            /\ UNCHANGED tracked_coins
       ELSE /\ tracked_coins' =
                   Append(tracked_coins, NewTrackedCoin(coin_id, symbol, name))
            /\ result' = [op |-> "add_tracked_coin", coin_id |-> coin_id,
                          raised |-> "None",
                          value |-> NewTrackedCoin(coin_id, symbol, name)]
    /\ client_calls' = <<>>
    /\ UNCHANGED <<coin_prices, clock, catalog>>

\* delete_tracked_coin with the snapshots deleted before the lookup.
DeleteTrackedCoinPricesFirst(coin_id, delete_prices) ==
    /\ tracked_coins' = SelectSeq(tracked_coins, LAMBDA t : t.coin_id # coin_id)
    /\ coin_prices' =
           IF delete_prices
           THEN SelectSeq(coin_prices, LAMBDA p : p.coin_id # coin_id)
           ELSE coin_prices
    /\ result' = [op |-> "delete_tracked_coin", coin_id |-> coin_id,
                  delete_prices |-> delete_prices,
                  raised |-> IF TrackedWithId(coin_id) = <<>>
                             THEN "ValueError: not found" ELSE "None"]
    /\ client_calls' = <<>>
    /\ UNCHANGED <<clock, catalog>>

\* delete_tracked_coin
DeleteTrackedCoin(coin_id, delete_prices) ==
    LET deleted_count == Len(TrackedWithId(coin_id)) IN
    /\ tracked_coins' = SelectSeq(tracked_coins, LAMBDA t : t.coin_id # coin_id)
    /\ IF deleted_count = 0
       THEN /\ result' = [op |-> "delete_tracked_coin", coin_id |-> coin_id,
                          delete_prices |-> delete_prices,
                          raised |-> "ValueError: not found"]
            /\ UNCHANGED coin_prices
       ELSE /\ result' = [op |-> "delete_tracked_coin", coin_id |-> coin_id,
                          delete_prices |-> delete_prices, raised |-> "None"]
            /\ coin_prices' =
                   IF delete_prices
                   THEN SelectSeq(coin_prices, LAMBDA p : p.coin_id # coin_id)
                   ELSE coin_prices
    /\ client_calls' = <<>>
    /\ UNCHANGED <<clock, catalog>>

----------------------------------------------------------------------------
(* Recording prices. *)

\* What the environment does when one coin's price is recorded: get_price
\* returns a price, or get_price raises, or the save of the snapshot raises.
FetchOutcomes ==
    {[kind |-> "price", price |-> p] : p \in FetchPrices}
        \cup {[kind |-> "get_price raises", price |-> 0],
              [kind |-> "save raises", price |-> 0]}

\* record_price_for_coin as an upsert: the new snapshot replaces the last
\* one stored.
RecordPriceUpsert(st, coin_id, outcome) ==
    LET calls == Append(st.calls, [method |-> "get_price", coin_id |-> coin_id]) IN
    IF outcome.kind # "price"
    THEN [coin_prices |-> st.coin_prices, clock |-> st.clock, calls |-> calls,
          raised |-> outcome.kind]
    ELSE LET doc == [coin_id |-> coin_id, price |-> outcome.price,
                     timestamp |-> st.clock + 1] IN
         [coin_prices |->
              IF st.coin_prices = <<>> THEN <<doc>>
              ELSE Append(SubSeq(st.coin_prices, 1, Len(st.coin_prices) - 1), doc),
          clock |-> st.clock + 1, calls |-> calls, raised |-> "None",
          value |-> doc]

\* record_price_for_coin(coin_id) against the store st =
\* [coin_prices, clock, calls]: the store after it and what it returned or
\* raised.
RecordPrice(st, coin_id, outcome) ==
    LET calls == Append(st.calls, [method |-> "get_price", coin_id |-> coin_id]) IN
    IF outcome.kind = "get_price raises"
    THEN [coin_prices |-> st.coin_prices, clock |-> st.clock, calls |-> calls,
          raised |-> "RuntimeError"]
    ELSE IF outcome.kind = "save raises"
    THEN [coin_prices |-> st.coin_prices, clock |-> st.clock, calls |-> calls,
          raised |-> "save error"]
    ELSE LET doc == [coin_id |-> coin_id, price |-> outcome.price,
                     timestamp |-> st.clock + 1] IN
         [coin_prices |-> Append(st.coin_prices, doc), clock |-> st.clock + 1,
          calls |-> calls, raised |-> "None", value |-> doc]

RecordPriceForCoin(coin_id, outcome) ==
    LET r == RecordPrice([coin_prices |-> coin_prices, clock |-> clock,
                          calls |-> <<>>], coin_id, outcome) IN
    /\ r.clock <= MaxClock
    /\ coin_prices' = r.coin_prices
    /\ clock' = r.clock
    /\ client_calls' = r.calls
    /\ result' = IF r.raised = "None"
                 THEN [op |-> "record_price_for_coin", coin_id |-> coin_id,
                       raised |-> "None", value |-> r.value]
                 ELSE [op |-> "record_price_for_coin", coin_id |-> coin_id,
                       raised |-> r.raised]
    /\ UNCHANGED <<tracked_coins, catalog>>

\* The loop without its try/except: the first failure ends the batch.
RECURSIVE RecordLoopAbort(_, _, _, _)
RecordLoopAbort(st, coins, outcomes, i) ==
    IF i > Len(coins) THEN st
    ELSE LET r == RecordPrice(st, coins[i].coin_id, outcomes[i]) IN
         IF r.raised # "None"
         THEN [coin_prices |-> r.coin_prices, clock |-> r.clock,
               calls |-> r.calls, prices |-> st.prices, raised |-> r.raised]
         ELSE RecordLoopAbort([coin_prices |-> r.coin_prices, clock |-> r.clock,
                               calls |-> r.calls,
                               prices |-> Append(st.prices, r.value),
                               raised |-> "None"],
                              coins, outcomes, i + 1)

\* The loop of record_prices_for_all_tracked from position i of the list:
\* st carries the store, the clock, the client calls and the list "prices".
RECURSIVE RecordLoop(_, _, _, _)
RecordLoop(st, coins, outcomes, i) ==
    IF i > Len(coins) THEN st
    ELSE LET r == RecordPrice(st, coins[i].coin_id, outcomes[i]) IN
         RecordLoop([coin_prices |-> r.coin_prices, clock |-> r.clock,
                     calls |-> r.calls,
                     prices |-> IF r.raised = "None"
                                THEN Append(st.prices, r.value)
                                ELSE st.prices,
                     raised |-> "None"],
                    coins, outcomes, i + 1)

\* record_prices_for_all_tracked(), run against outcomes[i] for the i-th coin
\* of the list.
RecordAll(coins, outcomes) ==
    RecordLoop([coin_prices |-> coin_prices, clock |-> clock, calls |-> <<>>,
                prices |-> <<>>, raised |-> "None"],
               coins, outcomes, 1)

RecordPricesForAllTracked ==
    \E coins \in {ListTrackedCoins} :
    \E outcomes \in [1..Len(coins) -> FetchOutcomes] :
    \E r \in {RecordAll(coins, outcomes)} :
        /\ r.clock <= MaxClock
        /\ coin_prices' = r.coin_prices
        /\ clock' = r.clock
        /\ client_calls' = r.calls
        /\ result' = [op |-> "record_prices_for_all_tracked",
                      outcomes |-> outcomes, raised |-> r.raised,
                      value |-> r.prices]
        /\ UNCHANGED <<tracked_coins, catalog>>

----------------------------------------------------------------------------
(* Analytics.  A real number is a record [num, den] with den > 0, standing *)
(* for num / den; comparisons cross-multiply.                              *)

RECURSIVE GCD(_, _)
GCD(a, b) == IF b = 0 THEN a ELSE GCD(b, a % b)

Abs(x) == IF x < 0 THEN -x ELSE x

\* n / d for d # 0, in lowest terms with a positive denominator.
Rat(n, d) ==
    LET g == GCD(Abs(n), Abs(d))
    IN  IF d < 0 THEN [num |-> (-n) \div g, den |-> (-d) \div g]
        ELSE [num |-> n \div g, den |-> d \div g]

RatEq(a, b) == a.num * b.den = b.num * a.den
RatLess(a, b) == a.num * b.den < b.num * a.den
RatLeq(a, b) == a.num * b.den <= b.num * a.den
RatAbs(a) == [num |-> Abs(a.num), den |-> a.den]
RatAdd(a, b) == Rat(a.num * b.den + b.num * a.den, a.den * b.den)
RatMul(a, b) == Rat(a.num * b.num, a.den * b.den)
\* a / b for b # 0
RatDiv(a, b) == Rat(a.num * b.den, a.den * b.num)

\* sum(s)
RECURSIVE Sum(_)
Sum(s) == IF s = <<>> THEN 0 ELSE Head(s) + Sum(Tail(s))

\* statistics.mean(prices)
Mean(prices) == Rat(Sum(prices), Len(prices))

\* max(s) and min(s) of a non-empty list
Max(s) == CHOOSE x \in {s[i] : i \in 1..Len(s)} : \A j \in 1..Len(s) : s[j] <= x
Min(s) == CHOOSE x \in {s[i] : i \in 1..Len(s)} : \A j \in 1..Len(s) : x <= s[j]

\* CoinPriceDocument.objects(coin_id=coin_id)
PricesWithId(coin_id) == SelectSeq(coin_prices, LAMBDA p : p.coin_id = coin_id)

\* Insert p into the list s ordered by descending timestamp.
RECURSIVE InsertByTimestampDesc(_, _)
InsertByTimestampDesc(p, s) ==
    IF s = <<>> THEN <<p>>
    ELSE IF p.timestamp > Head(s).timestamp THEN <<p>> \o s
    ELSE <<Head(s)>> \o InsertByTimestampDesc(p, Tail(s))

\* order_by("-timestamp")
RECURSIVE OrderByTimestampDesc(_)
OrderByTimestampDesc(s) ==
    IF s = <<>> THEN <<>>
    ELSE InsertByTimestampDesc(s[Len(s)],
                               OrderByTimestampDesc(SubSeq(s, 1, Len(s) - 1)))

\* .limit(limit), for limit >= 1
Limit(s, limit) == IF Len(s) <= limit THEN s ELSE SubSeq(s, 1, limit)

\* get_price_history(coin_id, limit): newest first
GetPriceHistory(coin_id, limit) ==
    Limit(OrderByTimestampDesc(PricesWithId(coin_id)), limit)

\* prices = [item.price for item in history]
PricesOf(history) == [i \in 1..Len(history) |-> history[i].price]

\* ((close - open) / open) * 100.0 if open != 0 else 0.0, on the list of
\* prices, newest first: open_price = prices[-1], close_price = prices[0].
\* open_price taken from the wrong end of the list.
OpenPriceNewest(prices) == prices[1]

OpenPrice(prices) == prices[Len(prices)]
ClosePrice(prices) == prices[1]

NetChange(prices) ==
    IF OpenPrice(prices) # 0
    THEN Rat((ClosePrice(prices) - OpenPrice(prices)) * 100, OpenPrice(prices))
    ELSE Rat(0, 1)

\* The MarketAnalytics get_market_analytics builds from a list of >= 2 prices.
MarketAnalytics(coin_id, prices) ==
    [coin_id |-> coin_id,
     record_count |-> Len(prices),
     open_price |-> OpenPrice(prices),
     close_price |-> ClosePrice(prices),
     high_price |-> Max(prices),
     low_price |-> Min(prices),
     average_price |-> Mean(prices),
     net_change_percent |-> NetChange(prices)]

MinMarketRecords == 2
\* The minimum of get_trend_analysis, one too low.
MinTrendRecordsLow == 4 - 1

MinTrendRecords == 4

GetMarketAnalytics(coin_id, limit) ==
    \E history \in {GetPriceHistory(coin_id, limit)} :
        /\ result' =
               IF Len(history) < MinMarketRecords
               THEN [op |-> "get_market_analytics", coin_id |-> coin_id,
                     limit |-> limit,
                     raised |-> "ValueError: not enough data for market analysis"]
               ELSE [op |-> "get_market_analytics", coin_id |-> coin_id,
                     limit |-> limit, raised |-> "None",
                     value |-> MarketAnalytics(coin_id, PricesOf(history))]
        /\ client_calls' = <<>>
        /\ UNCHANGED <<tracked_coins, coin_prices, clock, catalog>>

\* sum(x * x for x in prices)
RECURSIVE SumSq(_)
SumSq(s) == IF s = <<>> THEN 0 ELSE Head(s) * Head(s) + SumSq(Tail(s))

\* The sum of the squared deviations of the prices from their mean:
\* sum((x - mean)^2) = sum(x^2) - sum(x)^2 / n.
SumSqDev(prices) ==
    Rat(Len(prices) * SumSq(prices) - Sum(prices) * Sum(prices), Len(prices))

\* statistics.pstdev(prices) squared: the population variance, divisor n.
VariancePopulation(prices) == RatDiv(SumSqDev(prices), Rat(Len(prices), 1))

\* statistics.stdev(prices) squared: the sample variance, divisor n - 1.
Variance(prices) == RatDiv(SumSqDev(prices), Rat(Len(prices) - 1, 1))

\* std_dev squared: statistics.stdev(prices) if actual_count > 1 else 0
StdDevSq(prices) == IF Len(prices) > 1 THEN Variance(prices) ELSE Rat(0, 1)

\* a < 1 / (k * k) for a >= 0 and k > 0, without forming a.num * k * k.
SqBelow(a, k) == a.num <= (a.den - 1) \div (k * k)

\* coeff_var < 1 / k for k > 0, where
\* coeff_var = (std_dev / mean_price) if mean_price != 0 else 0.
\* std_dev >= 0, so a negative mean gives coeff_var <= 0; for a positive
\* mean both sides are squared.
CoeffVarBelow(prices, k) ==
    IF Sum(prices) = 0 THEN TRUE
    ELSE IF Sum(prices) < 0 THEN TRUE
    ELSE SqBelow(RatDiv(StdDevSq(prices),
                        RatMul(Mean(prices), Mean(prices))), k)

Volatility(prices) ==
    IF CoeffVarBelow(prices, 100) THEN "Low"
    ELSE IF CoeffVarBelow(prices, 20) THEN "Medium"
    ELSE "High"

\* sum(i * prices[i] for i in range(n)): Python's index i is position i + 1.
RECURSIVE SumXY(_, _)
SumXY(prices, i) ==
    IF i > Len(prices) THEN 0 ELSE (i - 1) * prices[i] + SumXY(prices, i + 1)

\* sum(range(n)) and sum(i**2 for i in range(n))
RECURSIVE SumX(_)
SumX(n) == IF n <= 0 THEN 0 ELSE (n - 1) + SumX(n - 1)
RECURSIVE SumX2(_)
SumX2(n) == IF n <= 0 THEN 0 ELSE (n - 1) * (n - 1) + SumX2(n - 1)

\* slope, with the ZeroDivisionError handler
Slope(prices) ==
    LET n == Len(prices)
        denominator == n * SumX2(n) - SumX(n) * SumX(n)
    IN  IF denominator = 0 THEN Rat(0, 1)
        ELSE Rat(n * SumXY(prices, 1) - SumX(n) * Sum(prices), denominator)

\* norm_slope = (slope / mean_price) * 100 if mean_price != 0 else 0
NormSlope(prices) ==
    IF Sum(prices) = 0 THEN Rat(0, 1)
    ELSE RatMul(RatDiv(Slope(prices), Mean(prices)), Rat(100, 1))

\* The buckets with the two downward tests in the wrong order.
TrendMisordered(norm_slope) ==
    IF RatLess(Rat(1, 2), norm_slope) THEN "Strong Uptrend"
    ELSE IF RatLess(Rat(1, 10), norm_slope) THEN "Uptrend"
    ELSE IF RatLess(norm_slope, Rat(-1, 10)) THEN "Downtrend"
    ELSE IF RatLess(norm_slope, Rat(-1, 2)) THEN "Strong Downtrend"
    ELSE "Sideways"

Trend(norm_slope) ==
    IF RatLess(Rat(1, 2), norm_slope) THEN "Strong Uptrend"
    ELSE IF RatLess(Rat(1, 10), norm_slope) THEN "Uptrend"
    ELSE IF RatLess(norm_slope, Rat(-1, 2)) THEN "Strong Downtrend"
    ELSE IF RatLess(norm_slope, Rat(-1, 10)) THEN "Downtrend"
    ELSE "Sideways"

\* momentum = (abs(net_change) * 0.5) + (abs(norm_slope) * 20)
Momentum(net_change, norm_slope) ==
    RatAdd(RatMul(RatAbs(net_change), Rat(1, 2)),
           RatMul(RatAbs(norm_slope), Rat(20, 1)))

\* max(momentum, 0): the upper clamp forgotten.
MomentumScoreUnclamped(momentum) ==
    IF RatLess(momentum, Rat(0, 1)) THEN Rat(0, 1) ELSE momentum

\* min(max(momentum, 0), 10)
MomentumScore(momentum) ==
    LET lower == IF RatLess(momentum, Rat(0, 1)) THEN Rat(0, 1) ELSE momentum
    IN  IF RatLess(Rat(10, 1), lower) THEN Rat(10, 1) ELSE lower

\* The TrendAnalysis get_trend_analysis builds from a list of >= 4 prices.
TrendAnalysis(coin_id, prices) ==
    [coin_id |-> coin_id,
     record_count |-> Len(prices),
     trend |-> Trend(NormSlope(prices)),
     volatility |-> Volatility(prices),
     momentum_score |->
         MomentumScore(Momentum(NetChange(prices), NormSlope(prices))),
     net_change_percent |-> NetChange(prices)]

GetTrendAnalysis(coin_id, limit) ==
    \E history \in {GetPriceHistory(coin_id, limit)} :
        /\ result' =
               IF Len(history) < MinTrendRecords
               THEN [op |-> "get_trend_analysis", coin_id |-> coin_id,
                     limit |-> limit,
                     raised |-> "ValueError: not enough data for trend analysis"]
               ELSE [op |-> "get_trend_analysis", coin_id |-> coin_id,
                     limit |-> limit, raised |-> "None",
                     value |-> TrendAnalysis(coin_id, PricesOf(history))]
        /\ client_calls' = <<>>
        /\ UNCHANGED <<tracked_coins, coin_prices, clock, catalog>>

----------------------------------------------------------------------------
(* Coin search. *)

\* The substrings of a lowercased name that disqualify a coin.
NameKeywords ==
    { <<"-","p","e","g">>, <<"w","r","a","p","p","e","d">>,
      <<"t","o","k","e","n">>, <<"s","t","a","k","e","d">> }

MaxSymbolLen == 10

\* The filters without the test for "." in the symbol.
SkippedNoDot(symbol, coin_id, name) ==
    \/ symbol = <<>> \/ coin_id = <<>> \/ name = <<>>
    \/ Len(symbol) > 10
    \/ \E kw \in { <<"-","p","e","g">>, <<"w","r","a","p","p","e","d">>,
                    <<"t","o","k","e","n">>, <<"s","t","a","k","e","d">> } :
           Contains(kw, name)

\* The quality filters of the scan, on the lowercased fields of one coin:
\* TRUE when the coin is skipped ("continue").
Skipped(symbol, coin_id, name) ==
    \/ symbol = <<>> \/ coin_id = <<>> \/ name = <<>>
    \/ Contains(<<".">>, symbol)
    \/ Len(symbol) > MaxSymbolLen
    \/ \E kw \in NameKeywords : Contains(kw, name)

\* query == symbol or query == coin_id or query == name
Matches(query, symbol, coin_id, name) ==
    query = symbol \/ query = coin_id \/ query = name

\* The loop over all_coins from position i, with the results so far; a coin
\* that matches is appended, and the loop breaks if len(results) >= limit.
RECURSIVE ScanCatalog(_, _, _, _, _)
ScanCatalog(all_coins, query, limit, i, results) ==
    IF i > Len(all_coins) THEN results
    ELSE LET coin == all_coins[i]
             symbol == Lower(coin.symbol)
             coin_id == Lower(coin.id)
             name == Lower(coin.name)
         IN  IF Skipped(symbol, coin_id, name)
             THEN ScanCatalog(all_coins, query, limit, i + 1, results)
             ELSE IF Matches(query, symbol, coin_id, name)
             THEN IF Len(results) + 1 >= limit
                  THEN Append(results, coin)
                  ELSE ScanCatalog(all_coins, query, limit, i + 1,
                                   Append(results, coin))
             ELSE ScanCatalog(all_coins, query, limit, i + 1, results)

\* search_coins without query.lower().
SearchResultCaseSensitive(query, limit) ==
    IF query \in MajorKeys
    THEN [value |-> <<MAJOR_COINS(query)>>, calls |-> <<>>]
    ELSE [value |-> ScanCatalog(catalog, query, limit, 1, <<>>),
          calls |-> <<[method |-> "get_supported_coins_with_details"]>>]

\* search_coins(query, limit): what it returns and the calls it makes on the
\* client.
SearchResult(query, limit) ==
    LET q == Lower(query) IN
    IF q \in MajorKeys
    THEN [value |-> <<MAJOR_COINS(q)>>, calls |-> <<>>]
    ELSE [value |-> ScanCatalog(catalog, q, limit, 1, <<>>),
          calls |-> <<[method |-> "get_supported_coins_with_details"]>>]

SearchCoins(query, limit) ==
    \E r \in {SearchResult(query, limit)} :
        /\ result' = [op |-> "search_coins", query |-> query, limit |-> limit,
                      raised |-> "None", value |-> r.value]
        /\ client_calls' = r.calls
        /\ UNCHANGED <<tracked_coins, coin_prices, clock, catalog>>

----------------------------------------------------------------------------
(* The interactive add.  A line the user types is a tuple of characters.   *)

DigitValue ==
    [c \in {"0","1","2","3","4","5","6","7","8","9"} |->
        CASE c = "0" -> 0 [] c = "1" -> 1 [] c = "2" -> 2 [] c = "3" -> 3
          [] c = "4" -> 4 [] c = "5" -> 5 [] c = "6" -> 6 [] c = "7" -> 7
          [] c = "8" -> 8 [] c = "9" -> 9]

\* str.strip, for the blanks of the model's lines
RECURSIVE Strip(_)
Strip(s) ==
    IF s = <<>> THEN s
    ELSE IF Head(s) = " " THEN Strip(Tail(s))
    ELSE IF s[Len(s)] = " " THEN Strip(SubSeq(s, 1, Len(s) - 1))
    ELSE s

IsDigits(s) == s # <<>> /\ \A i \in 1..Len(s) : s[i] \in DOMAIN DigitValue

\* int(s) raises ValueError unless s is digits after an optional sign.
IsInt(s) ==
    IF s # <<>> /\ Head(s) \in {"-", "+"} THEN IsDigits(Tail(s)) ELSE IsDigits(s)

RECURSIVE DigitsValue(_)
DigitsValue(s) ==
    IF s = <<>> THEN 0
    ELSE 10 * DigitsValue(SubSeq(s, 1, Len(s) - 1)) + DigitValue[s[Len(s)]]

IntOf(s) ==
    IF Head(s) = "-" THEN 0 - DigitsValue(Tail(s))
    ELSE IF Head(s) = "+" THEN DigitsValue(Tail(s))
    ELSE DigitsValue(s)

\* The selection loop over the lines still to come, after i - 1 reads, for n
\* matches: the number of input() calls and the choice, or EOFError when
\* the input ends.
RECURSIVE ReadChoice(_, _, _)
ReadChoice(lines, n, i) ==
    IF i > Len(lines) THEN [prompts |-> i, raised |-> "EOFError"]
    ELSE LET choice_str == Strip(lines[i]) IN
         IF IsInt(choice_str) /\ 0 <= IntOf(choice_str) /\ IntOf(choice_str) <= n
         THEN [prompts |-> i, raised |-> "None", choice |-> IntOf(choice_str)]
         ELSE ReadChoice(lines, n, i + 1)

\* The selection among the matches: the number of input() calls and the
\* coin selected, or what was raised.
SelectCoin(matches, lines) ==
    IF Len(matches) = 1 /\ matches[1] \in MajorEntries
    THEN [prompts |-> 0, raised |-> "None", selected_coin |-> matches[1]]
    ELSE LET r == ReadChoice(lines, Len(matches), 1) IN
         IF r.raised # "None" THEN r
         ELSE IF r.choice = 0
         THEN [prompts |-> r.prompts, raised |-> "ValueError: cancelled"]
         ELSE [prompts |-> r.prompts, raised |-> "None",
               selected_coin |-> matches[r.choice]]

\* add_tracked_coin_interactive(query) with the lines the user will type
AddTrackedCoinInteractive(query, lines) ==
    \E found \in {SearchResult(query, 10)} :
    \E sel \in {IF found.value = <<>>
                THEN [prompts |-> 0, raised |-> "ValueError: no coins found"]
                ELSE SelectCoin(found.value, lines)} :
    LET outcome == [op |-> "add_tracked_coin_interactive", query |-> query,
                    matches |-> found.value, prompts |-> sel.prompts,
                    read |-> SubSeq(lines, 1, IF sel.prompts > Len(lines)
                                              THEN Len(lines) ELSE sel.prompts)]
    IN
    /\ IF sel.raised # "None"
       THEN /\ result' = outcome @@ [raised |-> sel.raised]
            /\ UNCHANGED tracked_coins
       ELSE LET c == sel.selected_coin IN
            IF TrackedWithId(c.id) # <<>>
            THEN /\ result' = outcome @@ [raised |-> "ValueError: already tracked"]
                 /\ UNCHANGED tracked_coins
            ELSE /\ tracked_coins' =
                        Append(tracked_coins, NewTrackedCoin(c.id, c.symbol, c.name))
                 /\ result' = outcome @@
                        [raised |-> "None",
                         value |-> NewTrackedCoin(c.id, c.symbol, c.name)]
    /\ client_calls' = found.calls
    /\ UNCHANGED <<coin_prices, clock, catalog>>

----------------------------------------------------------------------------
(* The service: a fresh store, then any sequence of operations. *)

Init ==
    /\ tracked_coins = <<>>
    /\ coin_prices = <<>>
    /\ clock = 0
    /\ catalog = <<>>
    /\ client_calls = <<>>
    /\ result = [op |-> "init"]

Add == \E a \in AddInputs : AddTrackedCoin(a.coin_id, a.symbol, a.name)

Delete == \E c \in CoinIds, d \in BOOLEAN : DeleteTrackedCoin(c, d)

Record == \E c \in CoinIds, o \in FetchOutcomes : RecordPriceForCoin(c, o)

Next ==
    \/ Add
    \/ Delete
    \/ Record
    \/ RecordPricesForAllTracked

Spec == Init /\ [][Next]_vars

----------------------------------------------------------------------------
(* The analytics over a store that already holds snapshots: every history  *)
(* of at most MaxHistory snapshots of one coin, recorded after a snapshot  *)
(* of another coin, then any sequence of analytics calls.                  *)

\* The prices of the stored snapshots: a history draws its prices from one
\* of these pools (prices a few percent apart, or prices that may be 0).
PricePools == {{95, 100, 105, 110}, {0, 100}}

\* The limits the analytics are called with.
Limits == {1, 4, 10}

Histories == UNION {[1..n -> pool] : n \in 0..MaxHistory, pool \in PricePools}

StoredHistory(ps) ==
    <<[coin_id |-> EthereumId, price |-> 100, timestamp |-> 1]>>
        \o [i \in 1..Len(ps) |->
               [coin_id |-> BitcoinId, price |-> ps[i], timestamp |-> i + 1]]

InitAnalytics ==
    /\ tracked_coins = <<>>
    /\ \E ps \in Histories : coin_prices = StoredHistory(ps)
    /\ clock = Len(coin_prices)
    /\ catalog = <<>>
    /\ client_calls = <<>>
    /\ result = [op |-> "init"]

Market == \E l \in Limits : GetMarketAnalytics(BitcoinId, l)

TrendOp == \E l \in Limits : GetTrendAnalysis(BitcoinId, l)

NextAnalytics ==
    \/ Market
    \/ TrendOp

SpecAnalytics == InitAnalytics /\ [][NextAnalytics]_vars

----------------------------------------------------------------------------
(* The search against every remote catalog of at most MaxCatalog coins     *)
(* taken, in order, from a list of coins of every kind the filters tell    *)
(* apart.                                                                  *)

Usdt == <<"u","s","d","t">>

CatalogCoins ==
    << [id |-> <<"t","e","t","h","e","r">>, symbol |-> Usdt,
        name |-> <<"T","e","t","h","e","r">>],
       [id |-> <<"u","s","d","t","-","p","e","g">>, symbol |-> Usdt,
        name |-> <<"B","i","n","a","n","c","e","-","P","e","g"," ","U","S","D","T">>],
       [id |-> <<"w","r","a","p","p","e","d","-","u","s","d","t">>, symbol |-> Usdt,
        name |-> <<"W","r","a","p","p","e","d"," ","U","S","D","T">>],
       [id |-> Usdt, symbol |-> <<"U","S","D","T">>,
        name |-> <<"B","r","i","d","g","e","d"," ","U","S","D","T">>],
       [id |-> <<"s","p","a","m">>, symbol |-> <<"s","p","a","m",".","x">>,
        name |-> <<"S","p","a","m">>],
       [id |-> <<"s","p","a","m","-","c","o","i","n","-","p","e","g">>,
        symbol |-> <<"s","p","a","m",".","x">>,
        name |-> <<"S","p","a","m","C","o","i","n">>],
       [id |-> <<"u","s","d","t","-","l","o","n","g">>,
        symbol |-> <<"u","s","d","t","u","s","d","t","u","s","d">>,
        name |-> <<"U","S","D","T">>],
       [id |-> <<"p","e","g","a","s","u","s">>, symbol |-> <<"p","g","s">>,
        name |-> <<"P","e","g","a","s","u","s">>],
       [id |-> <<"s","t","a","k","e","d","-","u","s","d","t">>, symbol |-> Usdt,
        name |-> <<"S","t","a","k","e","d"," ","U","S","D","T">>],
       [id |-> <<"u","s","d","t","-","t","o","k","e","n">>, symbol |-> Usdt,
        name |-> <<"U","S","D","T"," ","T","o","k","e","n">>],
       [id |-> Usdt, symbol |-> <<>>, name |-> <<"U","S","D","T">>],
       [id |-> <<"u","s","d","t","-","b">>, symbol |-> Usdt,
        name |-> <<"U","S","D","T"," ","B">>] >>

\* The coins of CatalogCoins at the positions in idx, in order.
RECURSIVE Pick(_, _)
Pick(idx, i) ==
    IF i > Len(CatalogCoins) THEN <<>>
    ELSE IF i \in idx THEN <<CatalogCoins[i]>> \o Pick(idx, i + 1)
    ELSE Pick(idx, i + 1)

\* The catalog the tests mock (MOCK_COINS_LIST).
MockCatalog ==
    << [id |-> BitcoinId, symbol |-> <<"b","t","c">>,
        name |-> <<"B","i","t","c","o","i","n">>],
       [id |-> EthereumId, symbol |-> <<"e","t","h">>,
        name |-> <<"E","t","h","e","r","e","u","m">>],
       [id |-> RippleId, symbol |-> <<"x","r","p">>, name |-> <<"X","R","P">>],
       [id |-> <<"s","p","a","m","-","c","o","i","n","-","p","e","g">>,
        symbol |-> <<"s","p","a","m",".","x">>,
        name |-> <<"S","p","a","m","C","o","i","n">>] >>

\* Every catalog of at most MaxCatalog coins, and the catalog of the tests.
Catalogs ==
    {Pick(idx, 1) : idx \in {x \in SUBSET (1..Len(CatalogCoins)) :
                                Cardinality(x) <= MaxCatalog}}
        \cup {MockCatalog}

Queries ==
    { <<"U","S","D","T">>, <<"s","p","a","m">>, <<"p","e","g","a","s","u","s">>,
      <<"B","T","C">>, <<"e","t","h","e","r","e","u","m">>, <<"X","r","p">> }

SearchLimits == {0, 1, 2, 10}

InitSearch ==
    /\ tracked_coins = <<>>
    /\ coin_prices = <<>>
    /\ clock = 0
    /\ catalog \in Catalogs
    /\ client_calls = <<>>
    /\ result = [op |-> "init"]

Search == \E q \in Queries, l \in SearchLimits : SearchCoins(q, l)

NextSearch == Search

SpecSearch == InitSearch /\ [][NextSearch]_vars

----------------------------------------------------------------------------
(* The whole life of the snapshots: the service opened on a store that     *)
(* holds the snapshots an earlier run left, then any sequence of store     *)
(* operations and analytics calls on two coins.                            *)

\* Three snapshots of bitcoin left by an earlier run.
EarlierSnapshots ==
    << [coin_id |-> BitcoinId, price |-> 95, timestamp |-> 0 - 2],
       [coin_id |-> BitcoinId, price |-> 105, timestamp |-> 0 - 1],
       [coin_id |-> BitcoinId, price |-> 100, timestamp |-> 0] >>

InitLifecycle ==
    /\ tracked_coins = <<>>
    /\ coin_prices = EarlierSnapshots
    /\ clock = 0
    /\ catalog = <<>>
    /\ client_calls = <<>>
    /\ result = [op |-> "init"]

LifecycleIds == {BitcoinId, EthereumId}

AddOfTwo ==
    \E a \in AddInputs :
        a.coin_id \in LifecycleIds /\ AddTrackedCoin(a.coin_id, a.symbol, a.name)

DeleteOfTwo == \E c \in LifecycleIds, d \in BOOLEAN : DeleteTrackedCoin(c, d)

RecordOfTwo ==
    \E c \in LifecycleIds, o \in FetchOutcomes : RecordPriceForCoin(c, o)

MarketOfTwo == \E c \in LifecycleIds : GetMarketAnalytics(c, 10)

TrendOfTwo == \E c \in LifecycleIds : GetTrendAnalysis(c, 10)

NextLifecycle ==
    \/ AddOfTwo
    \/ DeleteOfTwo
    \/ RecordOfTwo
    \/ RecordPricesForAllTracked
    \/ MarketOfTwo
    \/ TrendOfTwo

SpecLifecycle == InitLifecycle /\ [][NextLifecycle]_vars

----------------------------------------------------------------------------
(* The interactive add against a remote catalog, for the lines a user may  *)
(* type: any sequence of interactive adds from an empty store.             *)

Tether == [id |-> <<"t","e","t","h","e","r">>, symbol |-> Usdt,
           name |-> <<"T","e","t","h","e","r">>]
UsdtB == [id |-> <<"u","s","d","t","-","b">>, symbol |-> Usdt,
          name |-> <<"U","S","D","T"," ","B">>]

\* The catalog of the tests, a catalog with two coins of one symbol, and a
\* catalog that lists a coin just as the priority table does.
InteractiveCatalogs == {MockCatalog, <<Tether, UsdtB>>, <<MajorBinance>>}

InteractiveQueries ==
    { <<"b","t","c">>, <<"b","i","t","c","o","i","n">>, <<"U","S","D","T">>,
      <<"t","e","t","h","e","r">>, <<"s","p","a","m">>,
      <<"B","i","n","a","n","c","e"," ","C","o","i","n">> }

\* What the user types, line by line, until the input ends.
InputLines ==
    { <<>>,
      << <<"1">> >>,
      << <<"0">> >>,
      << <<"2">>, <<"1">> >>,
      << <<"9","9">>, <<"0">> >>,
      << <<"x">>, <<" ","2"," ">> >>,
      << <<"-","1">>, <<>>, <<"1">> >>,
      << <<"9","9">>, <<"x">> >> }

InitInteractive ==
    /\ tracked_coins = <<>>
    /\ coin_prices = <<>>
    /\ clock = 0
    /\ catalog \in InteractiveCatalogs
    /\ client_calls = <<>>
    /\ result = [op |-> "init"]

AddInteractive ==
    \E q \in InteractiveQueries, lines \in InputLines :
        AddTrackedCoinInteractive(q, lines)

NextInteractive == AddInteractive

SpecInteractive == InitInteractive /\ [][NextInteractive]_vars

----------------------------------------------------------------------------
(* Claims about the store and the batch recording, checked under Spec.     *)

\* The positions of the list whose record succeeded.
Succeeded(outcomes) == {i \in DOMAIN outcomes : outcomes[i].kind = "price"}

\* The k-th position, in list order, whose record succeeded.
NthSucceeded(outcomes, k) ==
    CHOOSE i \in Succeeded(outcomes) :
        Cardinality({j \in Succeeded(outcomes) : j < i}) = k - 1

\* C1: record_prices_for_all_tracked never raises, calls get_price once for
\* every tracked coin in list order whichever records fail, and returns
\* exactly the snapshots of the coins whose record succeeded, in that order:
\* as many as there were successes, each stored.
C1_BatchIsFailSafe ==
    result.op = "record_prices_for_all_tracked" =>
        LET coins == ListTrackedCoins
            outcomes == result.outcomes
            returned == result.value
        IN  /\ result.raised = "None"
            /\ Len(client_calls) = Len(tracked_coins)
            /\ \A i \in 1..Len(coins) :
                   client_calls[i] =
                       [method |-> "get_price", coin_id |-> coins[i].coin_id]
            /\ Len(returned) = Cardinality(Succeeded(outcomes))
            /\ \A k \in 1..Len(returned) :
                   /\ returned[k].coin_id =
                          coins[NthSucceeded(outcomes, k)].coin_id
                   /\ returned[k].price =
                          outcomes[NthSucceeded(outcomes, k)].price
            /\ Len(coin_prices) >= Len(returned)
            /\ SubSeq(coin_prices, Len(coin_prices) - Len(returned) + 1,
                      Len(coin_prices)) = returned

\* A batch over three tracked coins in which the first fetch raises, the
\* second record succeeds and the third save raises: one snapshot of three.
C1_Witness ==
    /\ result.op = "record_prices_for_all_tracked"
    /\ Len(tracked_coins) = 3
    /\ result.outcomes[1].kind = "get_price raises"
    /\ result.outcomes[2].kind = "price"
    /\ result.outcomes[3].kind = "save raises"
    /\ Len(result.value) = 1
    /\ Len(client_calls) = 3

\* The symbol each id is stored with.
StoredSymbol(coin_id) ==
    IF coin_id = BitcoinId THEN <<"b","t","c">>
    ELSE IF coin_id = EthereumId THEN <<"e","t","h">>
    ELSE <<"x","r","p">>

IdsOf(coins) == {coins[i].coin_id : i \in 1..Len(coins)}

C10_UniqueIds ==
    \A i, j \in 1..Len(tracked_coins) :
        tracked_coins[i].coin_id = tracked_coins[j].coin_id => i = j

C10_AddStep ==
    result'.op = "add_tracked_coin" =>
        IF result'.coin_id \in IdsOf(tracked_coins)
        THEN /\ result'.raised = "ValueError: already tracked"
             /\ tracked_coins' = tracked_coins
        ELSE /\ result'.raised = "None"
             /\ Len(tracked_coins') = Len(tracked_coins) + 1
             /\ SubSeq(tracked_coins', 1, Len(tracked_coins)) = tracked_coins
             /\ tracked_coins'[Len(tracked_coins')].coin_id = result'.coin_id
             /\ tracked_coins'[Len(tracked_coins')].symbol =
                    StoredSymbol(result'.coin_id)

----------------------------------------------------------------------------
(* Claims about the analytics, checked under SpecAnalytics.  The window is *)
(* stated from the stored snapshots, not from the query that reads them.   *)

\* The stored snapshots of one coin.
SnapshotsOf(coin_id) ==
    {coin_prices[i] : i \in {j \in 1..Len(coin_prices) :
                                coin_prices[j].coin_id = coin_id}}

\* The window: the min(limit, stored) most recent snapshots of the coin,
\* newest first; the k-th is the one with k - 1 newer snapshots of the coin.
WindowSize(coin_id, limit) ==
    IF limit < Cardinality(SnapshotsOf(coin_id))
    THEN limit ELSE Cardinality(SnapshotsOf(coin_id))

\* The price of the snapshot of the coin with k - 1 newer snapshots of it.
KthNewest(coin_id, k) ==
    (CHOOSE p \in SnapshotsOf(coin_id) :
        Cardinality({q \in SnapshotsOf(coin_id) :
                        q.timestamp > p.timestamp}) = k - 1).price

RECURSIVE WindowFrom(_, _, _)
WindowFrom(coin_id, limit, k) ==
    IF k > WindowSize(coin_id, limit) THEN <<>>
    ELSE <<KthNewest(coin_id, k)>> \o WindowFrom(coin_id, limit, k + 1)

Window(coin_id, limit) == WindowFrom(coin_id, limit, 1)

\* The window of the call whose outcome is in result.
ResultWindow == Window(result.coin_id, result.limit)

MarketDone == result.op = "get_market_analytics" /\ result.raised = "None"
TrendDone == result.op = "get_trend_analysis" /\ result.raised = "None"

C2_Minimum ==
    /\ result.op = "get_market_analytics" =>
           /\ result.raised \in
                  {"None", "ValueError: not enough data for market analysis"}
           /\ result.raised # "None" <=> Len(ResultWindow) < 2
           /\ result.raised = "None" =>
                  result.value.record_count = Len(ResultWindow)
    /\ result.op = "get_trend_analysis" =>
           /\ result.raised \in
                  {"None", "ValueError: not enough data for trend analysis"}
           /\ result.raised # "None" <=> Len(ResultWindow) < 4
           /\ result.raised = "None" =>
                  result.value.record_count = Len(ResultWindow)

C2_Frame ==
    result'.op \in {"get_market_analytics", "get_trend_analysis"} =>
        coin_prices' = coin_prices

C3_MarketAnalytics ==
    MarketDone =>
        LET w == ResultWindow
            v == result.value
        IN  /\ Len(w) >= 2
            /\ v.open_price = w[Len(w)]
            /\ v.close_price = w[1]
            /\ \A k \in 1..Len(w) : v.low_price <= w[k] /\ w[k] <= v.high_price
            /\ \E k \in 1..Len(w) : w[k] = v.high_price
            /\ \E k \in 1..Len(w) : w[k] = v.low_price
            /\ v.net_change_percent.den > 0
            /\ IF w[Len(w)] = 0
               THEN v.net_change_percent.num = 0
               ELSE v.net_change_percent.num * w[Len(w)] =
                        (w[1] - w[Len(w)]) * 100 * v.net_change_percent.den
            /\ w = <<100, 105, 95, 110>> =>
                   /\ v.open_price = 110
                   /\ v.close_price = 100
                   /\ -910 * v.net_change_percent.den
                          < 100 * v.net_change_percent.num
                   /\ 100 * v.net_change_percent.num
                          < -909 * v.net_change_percent.den

\* The market analytics of the window [100, 105, 95, 110], newest first, cut
\* by the limit out of five stored snapshots.
C3_Witness ==
    /\ MarketDone
    /\ Cardinality(SnapshotsOf(BitcoinId)) = 5
    /\ result.limit = 4
    /\ ResultWindow = <<100, 105, 95, 110>>

\* The sum of the first k prices of w, and of all of them.
RECURSIVE TotalTo(_, _)
TotalTo(w, k) == IF k = 0 THEN 0 ELSE w[k] + TotalTo(w, k - 1)

Total(w) == TotalTo(w, Len(w))

\* (n * w[k] - sum(w)) squared: n * n times the squared deviation of w[k].
ScaledSqDev(w, k) ==
    (Len(w) * w[k] - Total(w)) * (Len(w) * w[k] - Total(w))

RECURSIVE ScaledSqDevTo(_, _)
ScaledSqDevTo(w, k) ==
    IF k = 0 THEN 0 ELSE ScaledSqDev(w, k) + ScaledSqDevTo(w, k - 1)

\* The coefficient of variation of w, squared, for a standard deviation
\* with the given divisor (n: population, n - 1: sample) and a mean # 0.
CoeffVarSq(w, divisor) ==
    Rat(ScaledSqDevTo(w, Len(w)), divisor * Total(w) * Total(w))

\* a < 1 / m for a >= 0 and m > 0
BelowInverse(a, m) ==
    \/ a.num < a.den \div m
    \/ a.num = a.den \div m /\ a.den % m > 0

\* The bucket of the coefficient of variation: < 0.01 Low, < 0.05 Medium,
\* else High; the coefficient is 0 when the mean is 0.
VolatilityBucket(w, divisor) ==
    IF Total(w) = 0 THEN "Low"
    ELSE IF BelowInverse(CoeffVarSq(w, divisor), 10000) THEN "Low"
    ELSE IF BelowInverse(CoeffVarSq(w, divisor), 400) THEN "Medium"
    ELSE "High"

\* C4 as stated: the volatility label is the bucket of the coefficient of
\* variation computed from the population standard deviation (divisor n).
C4_PopulationVolatility ==
    TrendDone =>
        result.value.volatility = VolatilityBucket(ResultWindow, Len(ResultWindow))

\* C4 as amended: the volatility label is the bucket of the coefficient of
\* variation computed from the sample standard deviation (divisor n - 1):
\* < 0.01 Low, < 0.05 Medium, else High, the coefficient being 0 when the
\* mean is 0.
C4_SampleVolatility ==
    TrendDone =>
        result.value.volatility =
            VolatilityBucket(ResultWindow, Len(ResultWindow) - 1)

\* A window on which the two standard deviations fall in different buckets.
C4_Witness ==
    /\ TrendDone
    /\ VolatilityBucket(ResultWindow, Len(ResultWindow)) = "Medium"
    /\ VolatilityBucket(ResultWindow, Len(ResultWindow) - 1) = "High"
    /\ result.value.volatility = "High"

\* The least-squares slope of w against the index 0..n-1 of its positions
\* (position k has index k - 1), as covariance over variance of the index:
\* sum((i - mean_i) * (w_i - mean_w)) / sum((i - mean_i)^2), the numerator
\* scaled by 2n and the denominator by 4; 0 when the denominator is 0.
IndexDev(w, k) == 2 * (k - 1) - (Len(w) - 1)
CoDev(w, k) == IndexDev(w, k) * (Len(w) * w[k] - Total(w))
IndexSqDev(w, k) == IndexDev(w, k) * IndexDev(w, k)

RECURSIVE CoDevTo(_, _)
CoDevTo(w, k) == IF k = 0 THEN 0 ELSE CoDev(w, k) + CoDevTo(w, k - 1)

RECURSIVE IndexSqDevTo(_, _)
IndexSqDevTo(w, k) ==
    IF k = 0 THEN 0 ELSE IndexSqDev(w, k) + IndexSqDevTo(w, k - 1)

LeastSquaresSlope(w) ==
    IF IndexSqDevTo(w, Len(w)) = 0 THEN Rat(0, 1)
    ELSE Rat(2 * CoDevTo(w, Len(w)), Len(w) * IndexSqDevTo(w, Len(w)))

\* slope / mean * 100, or 0 when the mean is 0
NormalizedSlope(w) ==
    IF Total(w) = 0 THEN Rat(0, 1)
    ELSE LET sl == LeastSquaresSlope(w)
         IN  Rat(sl.num * 100 * Len(w), sl.den * Total(w))

TrendLabels ==
    {"Strong Uptrend", "Uptrend", "Sideways", "Downtrend", "Strong Downtrend"}

\* C5: the trend label is the bucket of the normalized slope s of the window
\* (newest first) against its index: s > 0.5 Strong Uptrend,
\* 0.1 < s <= 0.5 Uptrend, s < -0.5 Strong Downtrend,
\* -0.5 <= s < -0.1 Downtrend, otherwise Sideways; exactly one of the five.
C5_TrendLabel ==
    TrendDone =>
        LET s == NormalizedSlope(ResultWindow)
            label == result.value.trend
        IN  /\ label \in TrendLabels
            /\ label = "Strong Uptrend" <=> RatLess(Rat(1, 2), s)
            /\ label = "Uptrend" <=>
                   RatLess(Rat(1, 10), s) /\ RatLeq(s, Rat(1, 2))
            /\ label = "Strong Downtrend" <=> RatLess(s, Rat(-1, 2))
            /\ label = "Downtrend" <=>
                   RatLeq(Rat(-1, 2), s) /\ RatLess(s, Rat(-1, 10))
            /\ label = "Sideways" <=>
                   RatLeq(Rat(-1, 10), s) /\ RatLeq(s, Rat(1, 10))

\* A window of five prices whose normalized slope lies in [-0.5, -0.1).
C5_Witness ==
    /\ TrendDone
    /\ Len(ResultWindow) = 5
    /\ result.value.trend = "Downtrend"
    /\ RatLess(NormalizedSlope(ResultWindow), Rat(-1, 10))

\* |net change %| * 0.5 + |normalized slope| * 20 of the window.
WindowNetChange(w) ==
    IF w[Len(w)] = 0 THEN Rat(0, 1)
    ELSE Rat((w[1] - w[Len(w)]) * 100, w[Len(w)])

RawMomentum(w) ==
    RatAdd(RatMul(RatAbs(WindowNetChange(w)), Rat(1, 2)),
           RatMul(RatAbs(NormalizedSlope(w)), Rat(20, 1)))

\* C6: the momentum score is |net change %| * 0.5 + |normalized slope| * 20
\* clamped to [0, 10]: it lies in [0, 10], is 10 when the sum exceeds 10 and
\* is the sum otherwise.
C6_MomentumClamped ==
    TrendDone =>
        LET raw == RawMomentum(ResultWindow)
            score == result.value.momentum_score
        IN  /\ RatLeq(Rat(0, 1), score)
            /\ RatLeq(score, Rat(10, 1))
            /\ IF RatLess(Rat(10, 1), raw)
               THEN RatEq(score, Rat(10, 1))
               ELSE RatEq(score, raw)

\* A window whose unclamped momentum exceeds 10.
C6_Witness ==
    /\ TrendDone
    /\ RatLess(Rat(10, 1), RawMomentum(ResultWindow))
    /\ result.value.momentum_score = Rat(10, 1)

----------------------------------------------------------------------------
(* Claims about the coin search, checked under SpecSearch. *)

SearchDone == result.op = "search_coins"

\* The queries that are not keys of the priority table in any case.
FallbackQueries == {q \in Queries : Lower(q) \notin MajorKeys}

Returned == {result.value[i] : i \in 1..Len(result.value)}

SpamCoinPeg ==
    [id |-> <<"s","p","a","m","-","c","o","i","n","-","p","e","g">>,
     symbol |-> <<"s","p","a","m",".","x">>,
     name |-> <<"S","p","a","m","C","o","i","n">>]

\* No returned coin has a symbol with a "." or of more than 10 characters,
\* or a name that contains, in any case, one of the substrings in denylist;
\* a search for "spam" over the catalog of the tests, or over the
\* spam-coin-peg coin alone, is empty.
FallbackIsClean(denylist) ==
    (SearchDone /\ result.query \in FallbackQueries) =>
        /\ \A coin \in Returned :
               /\ ~Contains(<<".">>, coin.symbol)
               /\ Len(coin.symbol) <= 10
               /\ \A kw \in denylist : ~Contains(kw, Lower(coin.name))
        /\ ( /\ result.query = <<"s","p","a","m">>
              /\ catalog \in {MockCatalog, <<SpamCoinPeg>>} ) =>
               result.value = <<>>

\* C7 as stated: the denylisted substrings are peg, wrapped, token, staked.
C7_NoPegInNames ==
    FallbackIsClean({ <<"p","e","g">>, <<"w","r","a","p","p","e","d">>,
                      <<"t","o","k","e","n">>, <<"s","t","a","k","e","d">> })

\* C7 as amended: for a query that is not a priority-table key, no returned
\* coin has a symbol with a "." or of more than 10 characters, and no
\* returned coin has a name containing, in any case, one of -peg, wrapped,
\* token, staked; searching "spam" over the catalog of the tests, which
\* holds the spam-coin-peg coin, returns nothing.
C7_NoDashPegInNames ==
    FallbackIsClean({ <<"-","p","e","g">>, <<"w","r","a","p","p","e","d">>,
                      <<"t","o","k","e","n">>, <<"s","t","a","k","e","d">> })

\* A search for USDT over a catalog of a -peg coin, a wrapped coin and a
\* clean coin, which returns the clean coin alone.
C7_Witness ==
    /\ SearchDone
    /\ result.query = <<"U","S","D","T">>
    /\ result.limit = 10
    /\ catalog = <<CatalogCoins[2], CatalogCoins[3], CatalogCoins[4]>>
    /\ result.value = <<CatalogCoins[4]>>

\* The coins of the catalog that pass the filters and equal the lowercased
\* query in id, symbol or name, as positions of the catalog.
Qualifying(query) ==
    {i \in 1..Len(catalog) :
        LET coin == catalog[i] IN
        /\ coin.symbol # <<>> /\ coin.id # <<>> /\ coin.name # <<>>
        /\ ~Contains(<<".">>, coin.symbol)
        /\ Len(coin.symbol) <= 10
        /\ \A kw \in NameKeywords : ~Contains(kw, Lower(coin.name))
        /\ Lower(query) \in {Lower(coin.symbol), Lower(coin.id), Lower(coin.name)}}

\* C8: search_coins never returns more than limit results, for every
\* limit >= 0, on a priority-table hit or on the fallback; the fallback
\* returns the first min(limit, number of qualifying matches) qualifying
\* coins in catalog order.
C8_AtMostLimit ==
    SearchDone =>
        /\ Len(result.value) <= result.limit
        /\ result.query \in FallbackQueries =>
               LET q == Qualifying(result.query)
                   n == IF result.limit < Cardinality(q)
                        THEN result.limit ELSE Cardinality(q)
               IN  /\ Len(result.value) = n
                   /\ \A k \in 1..n :
                          \E i \in q :
                              /\ Cardinality({j \in q : j < i}) = k - 1
                              /\ result.value[k] = catalog[i]

\* C9: a query that is, lowercased, a key of the priority table returns
\* exactly that table entry (BTC: bitcoin, ethereum: ethereum, Xrp: ripple)
\* without any call on the client; any other query fetches the remote
\* catalog exactly once.
C9_PriorityTableFirst ==
    SearchDone =>
        /\ result.query = <<"B","T","C">> =>
               /\ result.value =
                      <<[id |-> <<"b","i","t","c","o","i","n">>,
                         symbol |-> <<"b","t","c">>,
                         name |-> <<"B","i","t","c","o","i","n">>]>>
               /\ client_calls = <<>>
        /\ result.query = <<"e","t","h","e","r","e","u","m">> =>
               /\ Len(result.value) = 1
               /\ result.value[1].id = <<"e","t","h","e","r","e","u","m">>
               /\ result.value[1].symbol = <<"e","t","h">>
               /\ client_calls = <<>>
        /\ result.query = <<"X","r","p">> =>
               /\ Len(result.value) = 1
               /\ result.value[1].id = <<"r","i","p","p","l","e">>
               /\ result.value[1].name = <<"R","i","p","p","l","e">>
               /\ client_calls = <<>>
        /\ result.query \in FallbackQueries <=>
               client_calls = <<[method |-> "get_supported_coins_with_details"]>>
        /\ result.query \notin FallbackQueries <=> client_calls = <<>>

\* A search for Xrp, in mixed case, answered from the table over a catalog
\* that holds coins.
C9_Witness ==
    /\ SearchDone
    /\ result.query = <<"X","r","p">>
    /\ Len(catalog) = 3
    /\ result.value = <<MajorRipple>>
    /\ client_calls = <<>>

----------------------------------------------------------------------------
(* Claims about deletion, checked under Spec. *)

\* The records of a sequence whose id is not coin_id, in their order.
OfOtherIds(records, coin_id) ==
    SelectSeq(records, LAMBDA r : r.coin_id # coin_id)

C11_DeleteStep ==
    result'.op = "delete_tracked_coin" =>
        LET id == result'.coin_id IN
        /\ OfOtherIds(tracked_coins', id) = OfOtherIds(tracked_coins, id)
        /\ OfOtherIds(coin_prices', id) = OfOtherIds(coin_prices, id)
        /\ IF id \notin IdsOf(tracked_coins)
           THEN /\ result'.raised = "ValueError: not found"
                /\ tracked_coins' = tracked_coins
                /\ coin_prices' = coin_prices
           ELSE /\ result'.raised = "None"
                /\ id \notin IdsOf(tracked_coins')
                /\ IF result'.delete_prices
                   THEN id \notin IdsOf(coin_prices')
                   ELSE coin_prices' = coin_prices

\* C11: delete_tracked_coin of an id that is not tracked raises and changes
\* neither the tracked coins nor any snapshot, whatever delete_prices is; of
\* a tracked id it removes that coin, and removes every snapshot of the id
\* when delete_prices is true and none when it is false; the tracked coins
\* and snapshots of every other id stay as they were.
C11_DeleteTrackedCoin == [][C11_DeleteStep]_vars

\* A delete with delete_prices of an id that is not tracked has just been
\* refused while snapshots of that id and of another id are stored.
C11_Witness ==
    /\ result.op = "delete_tracked_coin"
    /\ result.raised = "ValueError: not found"
    /\ result.delete_prices
    /\ result.coin_id = BitcoinId
    /\ BitcoinId \in IdsOf(coin_prices)
    /\ EthereumId \in IdsOf(coin_prices)
    /\ EthereumId \in IdsOf(tracked_coins)

----------------------------------------------------------------------------
(* Claims about the interactive add, checked under SpecInteractive. *)

\* The number a line stands for, when it is one.
IsChoice(line, n) ==
    /\ IsInt(Strip(line))
    /\ 0 <= IntOf(Strip(line))
    /\ IntOf(Strip(line)) <= n

LastRead(r) == r.read[Len(r.read)]

C12_Step ==
    (result'.op = "add_tracked_coin_interactive" /\ result'.matches # <<>>) =>
        LET r == result'
            n == Len(r.matches)
        IN
        \* the user is asked before anything is added
        /\ r.prompts >= 1
        \* every line before the last one read was refused
        /\ \A i \in 1..(Len(r.read) - 1) : ~IsChoice(r.read[i], n)
        \* 0 cancels and adds nothing
        /\ (r.read # <<>> /\ IsChoice(LastRead(r), n)
                /\ IntOf(Strip(LastRead(r))) = 0) =>
               /\ r.raised = "ValueError: cancelled"
               /\ tracked_coins' = tracked_coins
        \* only a number in 1..n adds, and it adds the coin selected
        /\ tracked_coins' # tracked_coins =>
               /\ r.read # <<>>
               /\ IsChoice(LastRead(r), n)
               /\ IntOf(Strip(LastRead(r))) >= 1
               /\ Len(tracked_coins') = Len(tracked_coins) + 1
               /\ tracked_coins'[Len(tracked_coins')].coin_id =
                      r.matches[IntOf(Strip(LastRead(r)))].id

\* C12: for any query with at least one match, priority-table queries such
\* as btc and bitcoin included, add_tracked_coin_interactive asks the user
\* for a selection before it adds anything: a number out of range is
\* refused and the prompt repeated, 0 raises the cancellation and adds
\* nothing, and only a number in 1..len(matches) adds the selected coin.
C12_PromptsBeforeAdding == [][C12_Step]_vars

----------------------------------------------------------------------------
(* Claims about the life of the snapshots, checked under SpecLifecycle. *)

\* The step is a delete_tracked_coin that asked for the snapshots of
\* coin_id to go, and went through.
CascadeOf(coin_id) ==
    /\ result'.op = "delete_tracked_coin"
    /\ result'.raised = "None"
    /\ result'.delete_prices
    /\ result'.coin_id = coin_id

C13_Step ==
    \* every snapshot stays, as it was and in its place, unless a cascading
    \* delete of its coin removes it
    /\ \A i \in 1..Len(coin_prices) :
           \/ CascadeOf(coin_prices[i].coin_id)
           \/ \E j \in 1..Len(coin_prices') :
                  /\ coin_prices'[j] = coin_prices[i]
                  /\ \A k \in 1..(i - 1) :
                         ~CascadeOf(coin_prices[k].coin_id) =>
                             \E l \in 1..(j - 1) :
                                 coin_prices'[l] = coin_prices[k]
    \* a record adds one snapshot of the coin asked for, or none when it
    \* fails
    /\ result'.op = "record_price_for_coin" =>
           IF result'.raised = "None"
           THEN /\ Len(coin_prices') = Len(coin_prices) + 1
                /\ SubSeq(coin_prices', 1, Len(coin_prices)) = coin_prices
                /\ coin_prices'[Len(coin_prices')].coin_id = result'.coin_id
           ELSE coin_prices' = coin_prices
    \* a batch adds as many snapshots as it returns
    /\ result'.op = "record_prices_for_all_tracked" =>
           /\ Len(coin_prices') = Len(coin_prices) + Len(result'.value)
           /\ SubSeq(coin_prices', 1, Len(coin_prices)) = coin_prices
    \* nothing but a delete removes a snapshot
    /\ result'.op # "delete_tracked_coin" =>
           /\ Len(coin_prices') >= Len(coin_prices)
           /\ SubSeq(coin_prices', 1, Len(coin_prices)) = coin_prices

\* C13: across add_tracked_coin, record_price_for_coin,
\* record_prices_for_all_tracked, the analytics and delete_tracked_coin, a
\* stored snapshot keeps its coin id, price and timestamp and disappears
\* only through a delete_tracked_coin of its coin with delete_prices; a
\* successful record_price_for_coin adds exactly one snapshot of the coin
\* asked for, a failed one adds none, and a batch adds exactly as many
\* snapshots as it returns.
C13_SnapshotsAppendOnly == [][C13_Step]_vars

\* A cascading delete of bitcoin has just removed its snapshots, those of
\* the earlier run included, and a snapshot of ethereum is still stored.
C13_Witness ==
    /\ result.op = "delete_tracked_coin"
    /\ result.raised = "None"
    /\ result.delete_prices
    /\ result.coin_id = BitcoinId
    /\ IdsOf(coin_prices) = {EthereumId}

----------------------------------------------------------------------------
(* Claims about the direction of the trend, checked under SpecAnalytics. *)

\* The window w, newest first, rises over time: every snapshot is above the
\* one recorded before it.
RisesOverTime(w) ==
    /\ \A k \in 1..Len(w) : w[k] > 0
    /\ \A k \in 1..(Len(w) - 1) : w[k] > w[k + 1]

FallsOverTime(w) ==
    /\ \A k \in 1..Len(w) : w[k] > 0
    /\ \A k \in 1..(Len(w) - 1) : w[k] < w[k + 1]

\* C14: the trend label agrees in direction with the net change of the same
\* analysis: over a window of at least 4 positive prices that strictly rise
\* over time the net change is positive and the label is neither Downtrend
\* nor Strong Downtrend, and over one that strictly falls the net change is
\* negative and the label is neither Uptrend nor Strong Uptrend.
C14_TrendAgreesWithNetChange ==
    TrendDone =>
        /\ RisesOverTime(ResultWindow) =>
               /\ RatLess(Rat(0, 1), result.value.net_change_percent)
               /\ result.value.trend \notin {"Downtrend", "Strong Downtrend"}
        /\ FallsOverTime(ResultWindow) =>
               /\ RatLess(result.value.net_change_percent, Rat(0, 1))
               /\ result.value.trend \notin {"Uptrend", "Strong Uptrend"}

====
